---- MODULE Spec2Model ----
(***************************************************************************)
(* The chat component of OneIT (frontend/src/App.js) as a state machine.   *)
(*                                                                         *)
(* The React state of App (messages, input, isLoading, suggestions,        *)
(* isListening), the speech-recognition handle of recognitionRef, the      *)
(* suspended invocations of the async function sendMessage and the         *)
(* suggestion fetch of the mount effect are the variables.  Every event    *)
(* handler and every promise continuation is one action: JavaScript runs   *)
(* each of them to completion, and the state updates of one handler are    *)
(* applied together (setMessages is always given a functional update, so   *)
(* an update is applied to the list as it is when the handler runs).       *)
(*                                                                         *)
(* A string is a sequence of symbols.  A symbol is a single character or   *)
(* one of the literal phrases of the source, which the model keeps         *)
(* whole (the greeting is cut short and the warning sign before the two    *)
(* error texts is left out).  The value undefined is the one-symbol        *)
(* sequence Undefined.  Timestamps are left out: no handler reads them.    *)
(***************************************************************************)
EXTENDS Naturals, Sequences, FiniteSets

\* ------------------------------------------------------------------ bounds
\* most invocations of sendMessage that get past the empty-input test
MaxRequests == 2

\* ----------------------------------------------------------------- strings
Whitespace == {" "}
\* the texts a user types or speaks: empty, blank, plain, with leading blank
Texts == {<<>>, <<" ">>, <<"a">>, <<" ", "b">>}

Undefined == <<"undefined">>
Greeting == <<"Hi there! I'm **OneIT**, your placement companion! ...">>
ErrorPrefix == <<"Error: ">>
SomethingWentWrong == <<"Something went wrong">>
FailedToConnect == <<"Failed to connect to the server. Please make sure the backend is running.">>

RECURSIVE trimStart(_)
trimStart(s) ==
    IF s = <<>> THEN <<>>
    ELSE IF Head(s) \in Whitespace THEN trimStart(Tail(s)) ELSE s

RECURSIVE trimEnd(_)
trimEnd(s) ==
    IF s = <<>> THEN <<>>
    ELSE IF s[Len(s)] \in Whitespace THEN trimEnd(SubSeq(s, 1, Len(s) - 1)) ELSE s

\* String.prototype.trim
trim(s) == trimEnd(trimStart(s))

\* JavaScript truthiness of a value that is a string or undefined
Truthy(v) == v # Undefined /\ v # <<>>

\* String.prototype.includes
Includes(s, y) ==
    \E i \in 1..(Len(s) + 1) :
        /\ i + Len(y) - 1 <= Len(s)
        /\ SubSeq(s, i, i + Len(y) - 1) = y

IsPrefix(s, t) == Len(s) <= Len(t) /\ SubSeq(t, 1, Len(s)) = s

\* ------------------------------------------------------ what the server does
\* The settlement of fetch(.../api/chat) followed by response.json():
\*   kind "reject"    fetch rejects (no response obtainable)
\*   kind "response"  a response arrived; ok is response.ok; json says whether
\*                    the body fails to parse ("invalid"), parses to null
\*                    ("null") or parses to an object ("object") whose fields
\*                    response and error are strings or undefined.
ServerTexts == {<<>>, <<"a">>}
FieldValues == ServerTexts \cup {Undefined}
NoBody == [json |-> "none", response |-> Undefined, error |-> Undefined]
Bodies ==
    {[json |-> j, response |-> Undefined, error |-> Undefined] : j \in {"invalid", "null"}}
    \cup [json : {"object"}, response : FieldValues, error : FieldValues]
Rejected == [kind |-> "reject", ok |-> FALSE, data |-> NoBody]
Outcomes ==
    {Rejected} \cup [kind : {"response"}, ok : BOOLEAN, data : Bodies]

\* The settlement of fetch(.../api/suggestions) followed by res.json(): the
\* list under data.suggestions, Undefined when the field is absent, a value
\* that is not a list (NotAList, a JSON number), or a rejection of the chain
\* (network failure, unparsable body, null body).
NotAList == <<"42">>
SuggestionLists == {<<>>, << <<"a">>, <<" ">>, <<"a">>, <<"a">>, <<" ", "b">> >>}
SuggestionOutcomes ==
    {[kind |-> "reject", suggestions |-> Undefined]}
    \cup [kind : {"response"}, suggestions : SuggestionLists \cup {Undefined, NotAList}]

\* --------------------------------------------------------------- the state
VARIABLES
    messages,        \* useState: the conversation, a sequence of turns
    input,           \* useState: the draft in the textarea
    isLoading,       \* useState: the busy flag
    suggestions,     \* useState: the suggestion list
    isListening,     \* useState: the listening flag
    hasRecognition,  \* recognitionRef.current is a SpeechRecognition
    engine,          \* the recognition session of the browser
    calls,           \* the invocations of sendMessage that issued a request:
                     \* messageText, pc ("await" until the request settled, then
                     \* "done") and how the fetch ended ("pending", "rejected"
                     \* when no response was obtainable, "fulfilled")
    sugPc,           \* the suggestion fetch: "fetching" or "done"
    origin           \* history: for every turn, the invocation it belongs to

vars == <<messages, input, isLoading, suggestions, isListening, hasRecognition,
          engine, calls, sugPc, origin>>

\* lines 5-11
seedMessage == [type |-> "bot", text |-> Greeting]

\* history: the turns a step of invocation r added are marked with r
Tag(prev, next, r) == origin \o [i \in 1..(Len(next) - Len(prev)) |-> r]

Init ==
    /\ messages = <<seedMessage>>
    /\ input = <<>>
    /\ isLoading = FALSE
    /\ suggestions = <<>>
    /\ isListening = FALSE
    /\ hasRecognition \in BOOLEAN
    /\ engine = "idle"
    /\ calls = <<>>
    /\ sugPc = "fetching"
    /\ origin = <<0>>

\* ------------------------------------------------------------- sendMessage
\* mutant of Rejects: the test without trim()
Rejects_noTrim(messageText) == messageText = <<>>

\* line 87: the empty-input test
Rejects(messageText) == trim(messageText) = <<>>

\* mutant of appendUser: setMessages([userMessage]), the list replaced
appendUser_overwrite(prev, messageText) ==
    <<[type |-> "user", text |-> messageText]>>

\* lines 89-95: the user turn and its append
userMessage(messageText) == [type |-> "user", text |-> messageText]
appendUser(prev, messageText) == Append(prev, userMessage(messageText))

\* lines 86-97 and the fetch of line 100: sendMessage up to its first await.
\* draft is the value of input when the call is made.
sendMessage(messageText, draft) ==
    IF Rejects(messageText)
    THEN /\ input' = draft
         /\ UNCHANGED <<messages, isLoading, calls, origin>>
    ELSE /\ Len(calls) < MaxRequests
         /\ messages' = appendUser(messages, messageText)
         /\ input' = <<>>
         /\ isLoading' = TRUE
         /\ calls' = Append(calls, [messageText |-> messageText, pc |-> "await",
                                    fetch |-> "pending"])
         /\ origin' = Tag(messages, messages', Len(calls) + 1)

\* lines 100-106: the awaits throw when fetch rejects or the body does not
\* parse; line 110 throws when data is null (a property read of null)
Throws(o) == o.kind = "reject" \/ o.data.json \in {"invalid", "null"}

\* mutant of botText: an empty response taken for a failure
botText_truthy(ok, data) ==
    IF ok /\ Truthy(data.response) THEN data.response
    ELSE ErrorPrefix \o (IF Truthy(data.error) THEN data.error ELSE SomethingWentWrong)

\* mutant of botText: the server's error text ignored
botText_genericOnly(ok, data) ==
    IF ok THEN data.response ELSE ErrorPrefix \o SomethingWentWrong

\* line 110
botText(ok, data) ==
    IF ok THEN data.response
    ELSE ErrorPrefix \o (IF Truthy(data.error) THEN data.error ELSE SomethingWentWrong)

\* lines 108-112
botMessage(o) == [type |-> "bot", text |-> botText(o.ok, o.data)]

\* mutant of errorMessage: the generic error text in the catch block
errorMessage_generic == [type |-> "bot", text |-> ErrorPrefix \o SomethingWentWrong]

\* lines 116-120
errorMessage == [type |-> "bot", text |-> FailedToConnect]

\* mutant of tryMessages: the bot turn appended for 2xx responses only
tryMessages_okOnly(prev, o) ==
    IF o.ok THEN Append(prev, [type |-> "bot", text |-> o.data.response]) ELSE prev

\* mutant of tryMessages: the bot turn appended twice
tryMessages_twice(prev, o) == Append(Append(prev, botMessage(o)), botMessage(o))

\* line 114
tryMessages(prev, o) == Append(prev, botMessage(o))

\* mutant of catchMessages: the catch block appends nothing
catchMessages_dropped(prev) == prev

\* line 121
catchMessages(prev) == Append(prev, errorMessage)

\* mutant of finallyLoading: setIsLoading(false) at the end of the try block
finallyLoading_tryOnly(prev, o) == IF Throws(o) THEN prev ELSE FALSE

\* lines 122-124: isLoading after the finally block, prev being its value before
finallyLoading(prev, o) == FALSE

\* A completion that sends the message again when the round trip threw.
Settle_retry(r, o) ==
    /\ r \in 1..Len(calls)
    /\ calls[r].pc = "await"
    /\ IF Throws(o) /\ Len(calls) < MaxRequests
       THEN /\ calls' = Append([calls EXCEPT ![r].pc = "done", ![r].fetch = "rejected"],
                               [messageText |-> calls[r].messageText,
                                pc |-> "await", fetch |-> "pending"])
            /\ UNCHANGED <<messages, isLoading, origin>>
       ELSE /\ messages' = IF Throws(o) THEN catchMessages(messages)
                                         ELSE tryMessages(messages, o)
            /\ isLoading' = finallyLoading(isLoading, o)
            /\ calls' = [calls EXCEPT ![r].pc = "done",
                                      ![r].fetch = IF o.kind = "reject" THEN "rejected"
                                                   ELSE "fulfilled"]
            /\ origin' = Tag(messages, messages', r)
    /\ UNCHANGED <<input, suggestions, isListening, hasRecognition, engine, sugPc>>

\* lines 99-124: the rest of invocation r once its request settled with o.
\* Nothing is written between the two awaits, so they are one step.
Settle(r, o) ==
    /\ r \in 1..Len(calls)
    /\ calls[r].pc = "await"
    /\ messages' = IF Throws(o) THEN catchMessages(messages) ELSE tryMessages(messages, o)
    /\ isLoading' = finallyLoading(isLoading, o)
    /\ calls' = [calls EXCEPT ![r].pc = "done",
                              ![r].fetch = IF o.kind = "reject" THEN "rejected" ELSE "fulfilled"]
    /\ origin' = Tag(messages, messages', r)
    /\ UNCHANGED <<input, suggestions, isListening, hasRecognition, engine, sugPc>>

\* A textarea that stays enabled while a request is in flight.
inputDisabled_never == FALSE

\* ---------------------------------------------------------------- the view
\* line 230: the textarea is disabled while busy
inputDisabled == isLoading

\* line 237
sendDisabled == trim(input) = <<>> \/ isLoading

\* line 225: onChange
Change(v) ==
    /\ ~inputDisabled
    /\ input' = v
    /\ UNCHANGED <<messages, isLoading, suggestions, isListening, hasRecognition,
                   engine, calls, sugPc, origin>>

\* A key handler that does not look at the shift modifier.
handleKeyPress_noShift(key, shiftKey) ==
    /\ ~inputDisabled
    /\ IF key = "Enter"
       THEN sendMessage(input, input)
       ELSE UNCHANGED <<messages, input, isLoading, calls, origin>>
    /\ UNCHANGED <<suggestions, isListening, hasRecognition, engine, sugPc>>

\* lines 127-132, reached through the textarea (line 226)
handleKeyPress(key, shiftKey) ==
    /\ ~inputDisabled
    /\ IF key = "Enter" /\ ~shiftKey
       THEN sendMessage(input, input)
       ELSE UNCHANGED <<messages, input, isLoading, calls, origin>>
    /\ UNCHANGED <<suggestions, isListening, hasRecognition, engine, sugPc>>

\* lines 234-237: the send button
SendClick ==
    /\ ~sendDisabled
    /\ sendMessage(input, input)
    /\ UNCHANGED <<suggestions, isListening, hasRecognition, engine, sugPc>>

\* v.length > 0: a number has no length, and undefined > 0 is false
hasItems(v) == v # NotAList /\ Len(v) > 0

\* A panel shown whenever there are suggestions, whatever the conversation.
suggestionsVisible_anyLength == hasItems(suggestions)

\* line 196
suggestionsVisible == Len(messages) = 1 /\ hasItems(suggestions)

\* line 200: suggestions.slice(0, 4)
shownSuggestions == SubSeq(suggestions, 1, IF Len(suggestions) < 4 THEN Len(suggestions) ELSE 4)

\* line 201
SuggestionClick(i) ==
    /\ suggestionsVisible
    /\ i \in 1..Len(shownSuggestions)
    /\ sendMessage(shownSuggestions[i], input)
    /\ UNCHANGED <<suggestions, isListening, hasRecognition, engine, sugPc>>

\* lines 29-34
SuggestionsSettle(o) ==
    /\ sugPc = "fetching"
    /\ sugPc' = "done"
    /\ suggestions' = IF o.kind = "reject" THEN suggestions
                      ELSE IF o.suggestions = Undefined THEN <<>> ELSE o.suggestions
    /\ UNCHANGED <<messages, input, isLoading, isListening, hasRecognition, engine,
                   calls, origin>>

\* ------------------------------------------------------------------ speech
\* The session of the browser's recognizer: "idle", "starting" (start() was
\* called), "capturing" (the start event fired), "ending" (a result or an
\* error was delivered; the end event is still to come).  stop() asks the
\* recognizer to finish with what it has heard: it may still deliver a result.

\* lines 70-84
toggleVoiceInput ==
    /\ IF ~hasRecognition
       THEN UNCHANGED <<isListening, engine>>
       ELSE IF isListening
            THEN isListening' = FALSE /\ UNCHANGED engine
            ELSE \* start() throws InvalidStateError on a session that is not over
                 IF engine = "idle"
                 THEN engine' = "starting" /\ isListening' = TRUE
                 ELSE UNCHANGED <<isListening, engine>>
    /\ UNCHANGED <<messages, input, isLoading, suggestions, hasRecognition, calls,
                   sugPc, origin>>

\* lines 46-48
onstart ==
    /\ engine = "starting"
    /\ engine' = "capturing"
    /\ isListening' = TRUE
    /\ UNCHANGED <<messages, input, isLoading, suggestions, hasRecognition, calls,
                   sugPc, origin>>

\* lines 54-58
onresult(transcript) ==
    /\ engine = "capturing"
    /\ engine' = "ending"
    /\ sendMessage(transcript, transcript)
    /\ UNCHANGED <<suggestions, isListening, hasRecognition, sugPc>>

\* lines 60-64
onerror ==
    /\ engine \in {"starting", "capturing"}
    /\ engine' = "ending"
    /\ isListening' = FALSE
    /\ UNCHANGED <<messages, input, isLoading, suggestions, hasRecognition, calls,
                   sugPc, origin>>

\* lines 50-52
onend ==
    /\ engine # "idle"
    /\ engine' = "idle"
    /\ isListening' = FALSE
    /\ UNCHANGED <<messages, input, isLoading, suggestions, hasRecognition, calls,
                   sugPc, origin>>

\* ------------------------------------------------------- the specification
Next ==
    \/ \E v \in Texts : Change(v)
    \/ \E key \in {"Enter", "a"}, shiftKey \in BOOLEAN : handleKeyPress(key, shiftKey)
    \/ SendClick
    \/ \E i \in 1..4 : SuggestionClick(i)
    \/ \E o \in SuggestionOutcomes : SuggestionsSettle(o)
    \/ toggleVoiceInput
    \/ onstart
    \/ \E transcript \in Texts : onresult(transcript)
    \/ onerror
    \/ onend
    \/ \E r \in 1..MaxRequests, o \in Outcomes : Settle(r, o)

Spec == Init /\ [][Next]_vars

\* Every request that was issued settles: the browser ends each fetch with a
\* response or a failure.
FairSpec ==
    Spec /\ \A r \in 1..MaxRequests : WF_vars(\E o \in Outcomes : Settle(r, o))

\* ------------------------------------------------------------------ claims
Issued == 1..Len(calls)
Outstanding == {r \in Issued : calls[r].pc = "await"}
Completed == {r \in Issued : calls[r].pc = "done"}
TurnsOf(r, type) == {i \in 1..Len(messages) : origin[i] = r /\ messages[i].type = type}
BotTextsOf(r) == {messages[i].text : i \in TurnsOf(r, "bot")}

\* The step is a call of sendMessage with text t, from one of the four
\* submit paths: Enter, the send button, a suggestion chip, a transcript.
EnterSubmits(t) == input = t /\ handleKeyPress("Enter", FALSE)
SendSubmits(t) == input = t /\ SendClick
SuggestionSubmits(t) == \E i \in 1..4 : SuggestionClick(i) /\ shownSuggestions[i] = t
SpeechSubmits(t) == onresult(t)
Submits(t) == EnterSubmits(t) \/ SendSubmits(t) \/ SuggestionSubmits(t) \/ SpeechSubmits(t)

\* The step settles the request of invocation r.
Settles(r) == r \in Outstanding /\ calls'[r].pc = "done"

\* A response arrived and its body parsed to an object.
ObjectResponse(o) == o.kind = "response" /\ o.data.json = "object"

\* C1: the busy flag is true exactly when some submitted request has not yet
\* had its bot turn appended.
C1_BusyIffOutstanding == isLoading <=> Outstanding # {}

\* C2 as stated: every call of sendMessage with a non-empty string appends
\* exactly one user turn carrying that string.
C2_NonEmptyAppendsUserTurn ==
    [][\A t \in Texts : (t # <<>> /\ Submits(t))
          => messages' = Append(messages, [type |-> "user", text |-> t])]_vars

\* C2, amended: every call of sendMessage with a string that is not blank
\* appends exactly one user turn carrying that string, untrimmed, and issues
\* one request; every invocation has exactly one user turn, and exactly one
\* bot turn once it has settled (none before), whatever the outcome.
C2_OneUserOneBot ==
    /\ [][\A t \in Texts : (trim(t) # <<>> /\ Submits(t))
             => /\ messages' = Append(messages, [type |-> "user", text |-> t])
                /\ Len(calls') = Len(calls) + 1
                /\ calls'[Len(calls')].messageText = t]_vars
    /\ [](/\ Len(origin) = Len(messages)
          /\ \A r \in Issued :
                /\ Cardinality(TurnsOf(r, "user")) = 1
                /\ \A i \in TurnsOf(r, "user") : messages[i].text = calls[r].messageText
                /\ Cardinality(TurnsOf(r, "bot")) = (IF r \in Completed THEN 1 ELSE 0))

\* C2 witness: a text with a leading blank was submitted and its request
\* failed; the conversation holds its user turn and its one bot turn.
C2_Witness ==
    \E r \in Completed :
        /\ calls[r].messageText = <<" ", "b">>
        /\ calls[r].fetch = "rejected"
        /\ Cardinality(TurnsOf(r, "user")) = 1
        /\ Cardinality(TurnsOf(r, "bot")) = 1

\* C3: whichever way a request ends, the step that completes it leaves the
\* busy flag cleared and the input controls enabled.
C3_BusyClearedOnCompletion ==
    [][\A r \in 1..MaxRequests : Settles(r) => (~isLoading' /\ ~inputDisabled')]_vars

\* C3 witness: a request has ended in a network failure, none is outstanding
\* and the flag is clear.
C3_Witness ==
    /\ \E r \in Completed : calls[r].fetch = "rejected"
    /\ Outstanding = {} /\ ~isLoading

\* C4 as stated: a blank submit changes nothing, on every submit path.
C4_BlankSubmitNoOp ==
    [][\A t \in Texts : (trim(t) = <<>> /\ Submits(t))
          => UNCHANGED <<messages, calls, isLoading, input>>]_vars

\* C4, amended: a blank submit appends no turn, issues no request and leaves
\* the busy flag alone on every path; it leaves the draft alone on the send,
\* Enter and suggestion paths, and on the speech path the draft becomes the
\* transcript.
C4_BlankSubmitKeepsConversation ==
    [][\A t \in Texts : trim(t) = <<>> =>
          /\ Submits(t) => UNCHANGED <<messages, calls, isLoading>>
          /\ (EnterSubmits(t) \/ SendSubmits(t) \/ SuggestionSubmits(t)) => input' = input
          /\ SpeechSubmits(t) => input' = t]_vars

\* C4 witness: a blank transcript has just been delivered (the session is
\* between its result and its end) to a conversation that is still the
\* greeting alone, and the draft holds the transcript.
C4_Witness ==
    /\ engine = "ending" /\ isListening
    /\ messages = <<seedMessage>> /\ calls = <<>> /\ input = <<" ">>

\* C5: the conversation is never empty, starts with the greeting, and every
\* step keeps the old conversation as a prefix and adds at most one turn.
C5_AppendOnly ==
    /\ [](Len(messages) >= 1 /\ messages[1] = seedMessage)
    /\ [][IsPrefix(messages, messages') /\ Len(messages') <= Len(messages) + 1]_vars

\* C5 witness: two round trips have been appended after the greeting.
C5_Witness == Len(messages) = 5 /\ messages[1] = seedMessage

\* C6: every user turn is eventually followed by exactly one bot turn of its
\* request, appended after it and kept from then on, provided every request
\* settles; the user turns without a bot turn are those of the outstanding
\* requests.
Answered(r) ==
    /\ r \in Issued
    /\ Cardinality(TurnsOf(r, "bot")) = 1
    /\ \A i \in TurnsOf(r, "user"), j \in TurnsOf(r, "bot") : i < j
C6_EveryUserTurnAnswered ==
    /\ \A r \in 1..MaxRequests : (r \in Issued) ~> Answered(r)
    /\ [][\A r \in 1..MaxRequests : Answered(r) => Answered(r)']_vars
    /\ [](\A r \in Issued : TurnsOf(r, "bot") = {} <=> r \in Outstanding)

\* C6 witness: two requests overlapped and both have been answered.
C6_Witness ==
    /\ Len(calls) = 2 /\ Answered(1) /\ Answered(2)
    /\ messages[2].type = "user" /\ messages[3].type = "user"

\* C7: when a request settles with a successful response whose body carries
\* response X, the turn appended for it is a bot turn with text X.
C7_SuccessTextIsResponse ==
    [][\A r \in 1..MaxRequests, o \in Outcomes :
          (Settle(r, o) /\ ObjectResponse(o) /\ o.ok /\ o.data.response # Undefined)
              => /\ messages' = Append(messages, [type |-> "bot", text |-> o.data.response])
                 /\ origin'[Len(messages')] = r]_vars

\* C7 witness: a response was received and the bot turn of its request is "a".
C7_Witness ==
    \E r \in Completed : calls[r].fetch = "fulfilled" /\ BotTextsOf(r) = {<<"a">>}

\* C8: when a request settles with a non-success response whose body is an
\* object, the bot turn appended for it contains the server's error text, or
\* the generic fallback when the error field is absent or empty; the input
\* is enabled afterwards.
C8_ErrorTextShown ==
    [][\A r \in 1..MaxRequests, o \in Outcomes :
          (Settle(r, o) /\ ObjectResponse(o) /\ ~o.ok)
              => /\ Len(messages') = Len(messages) + 1
                 /\ messages'[Len(messages')].type = "bot"
                 /\ origin'[Len(messages')] = r
                 /\ IF o.data.error \in {Undefined, <<>>}
                    THEN Includes(messages'[Len(messages')].text, SomethingWentWrong)
                    ELSE Includes(messages'[Len(messages')].text, o.data.error)
                 /\ ~inputDisabled']_vars

\* C8 witness: the bot turn of a request shows the server's error "a" and
\* the input is enabled.
C8_Witness ==
    /\ \E r \in Completed :
          calls[r].fetch = "fulfilled" /\ BotTextsOf(r) = {ErrorPrefix \o <<"a">>}
    /\ ~inputDisabled

\* C9: the bot turn of a request whose fetch found no response is the fixed
\* fallback message, whatever the request carried.
C9_NetworkFailureFixedText ==
    \A r \in Issued :
        calls[r].fetch = "rejected" => BotTextsOf(r) = {FailedToConnect}

\* C9 witness: two requests with different contents both failed on the
\* network and both got the fixed message.
C9_Witness ==
    /\ Len(calls) = 2
    /\ calls[1].messageText # calls[2].messageText
    /\ \A r \in {1, 2} : calls[r].fetch = "rejected" /\ BotTextsOf(r) = {FailedToConnect}

\* C10: a response that arrived with a malformed payload (a body that does
\* not parse, or a 2xx body without a response field) gives the formatted
\* error message, never the cannot-reach-server message and never a missing
\* text.
Malformed(o) ==
    /\ o.kind = "response"
    /\ \/ o.data.json \in {"invalid", "null"}
       \/ o.ok /\ o.data.json = "object" /\ o.data.response = Undefined
C10_MalformedGivesFormattedError ==
    [][\A r \in 1..MaxRequests, o \in Outcomes :
          (Settle(r, o) /\ Malformed(o))
              => /\ messages'[Len(messages')].text # FailedToConnect
                 /\ messages'[Len(messages')].text # Undefined
                 /\ IsPrefix(ErrorPrefix, messages'[Len(messages')].text)]_vars

\* C11: the listening flag turns on only by a user toggle with the capability
\* present, and turns off only by the end event, a user toggle or the error
\* event; no other event, a late start event included, changes it.
C11_ListeningTransitions ==
    [][/\ (~isListening /\ isListening') => (toggleVoiceInput /\ hasRecognition)
       /\ (isListening /\ ~isListening') => (toggleVoiceInput \/ onend \/ onerror)
       /\ (~hasRecognition /\ toggleVoiceInput) => UNCHANGED vars
       /\ onerror => ~isListening']_vars

\* What a manual submit with the draft t does from the current state: the
\* textarea and the send button are disabled while busy (lines 230, 237), and
\* otherwise Enter or the button call sendMessage() with input = t.
manualSubmit(t) ==
    IF inputDisabled
    THEN input' = t /\ UNCHANGED <<messages, calls, isLoading>>
    ELSE sendMessage(t, t)

\* C12: a recognized transcript t is handled exactly like a manual submit with
\* the draft t from the same state: same conversation, same request, same
\* busy flag, same draft, for every t and every state.
C12_SpeechLikeManualSubmit ==
    [][\A t \in Texts : SpeechSubmits(t) => manualSubmit(t)]_vars

\* ---- Rendering (lines 134-140, 163-176) ----

\* The position of the "**" that closes a bold run opened at s[1..2]: the
\* first one the lazy group (.*?) reaches, and '.' does not match a newline;
\* 0 if there is none.
boldClose(s) ==
    LET ends == {j \in 3..(Len(s) - 1) :
                    /\ s[j] = "*" /\ s[j + 1] = "*"
                    /\ \A k \in 3..(j - 1) : s[k] # "\n"}
    IN IF ends = {} THEN 0 ELSE CHOOSE j \in ends : \A k \in ends : j <= k

\* text.replace(/\*\*(.*?)\*\*/g, '<strong>$1</strong>')
RECURSIVE bold(_)
bold(s) ==
    IF s = <<>> THEN <<>>
    ELSE IF Len(s) >= 4 /\ s[1] = "*" /\ s[2] = "*" /\ boldClose(s) # 0
    THEN <<"<strong>">> \o SubSeq(s, 3, boldClose(s) - 1) \o <<"</strong>">>
             \o bold(SubSeq(s, boldClose(s) + 2, Len(s)))
    ELSE <<s[1]>> \o bold(Tail(s))

\* .replace(/\n/g, '<br/>')
breaks(s) == [i \in 1..Len(s) |-> IF s[i] = "\n" THEN "<br/>" ELSE s[i]]

\* formatMessage(text): null for a falsy text, else a span whose inner HTML is
\* the text with the two replacements applied and nothing escaped.
formatMessage(text) ==
    IF ~Truthy(text)
    THEN [kind |-> "null", html |-> <<>>]
    ELSE [kind |-> "html", html |-> breaks(bold(text))]

\* One message of messages.map: the bubble's class is the message type and its
\* text goes through formatMessage whatever the type (line 168).
renderMessage(message) ==
    [type |-> message.type, content |-> formatMessage(message.text)]

rendered == [i \in 1..Len(messages) |-> renderMessage(messages[i])]

\* C13: every turn whose text is rendered as raw markup by formatMessage is a
\* bot turn; no user turn is.
C13_OnlyBotTurnsFormatted ==
    \A i \in 1..Len(messages) :
        rendered[i].content.kind = "html" => messages[i].type = "bot"

\* One submit of the text t: one user turn carrying t is appended and one
\* request carrying t is issued.
oneSubmit(t) ==
    /\ messages' = Append(messages, userMessage(t))
    /\ calls' = Append(calls, [messageText |-> t, pc |-> "await", fetch |-> "pending"])

\* C14 as stated: shift+Enter never submits, and a bare Enter with a non-empty
\* draft always makes exactly one submit.
C14_EnterSubmitsNonEmpty ==
    /\ ~ENABLED (handleKeyPress("Enter", TRUE) /\ (messages' # messages \/ calls' # calls))
    /\ (~inputDisabled /\ input # <<>> /\ Len(calls) < MaxRequests) =>
           /\ ENABLED (handleKeyPress("Enter", FALSE) /\ oneSubmit(input))
           /\ ~ENABLED (handleKeyPress("Enter", FALSE) /\ ~oneSubmit(input))

\* C14: shift+Enter never submits in any state; a bare Enter with a draft
\* that is not blank (not empty after trimming) always makes exactly one
\* submit, one user turn and one request; a bare Enter with a blank draft
\* changes nothing.
C14_EnterSubmitsNonBlank ==
    /\ ~ENABLED (handleKeyPress("Enter", TRUE) /\ (messages' # messages \/ calls' # calls))
    /\ (~inputDisabled /\ ~Rejects(input) /\ Len(calls) < MaxRequests) =>
           /\ ENABLED (handleKeyPress("Enter", FALSE) /\ oneSubmit(input))
           /\ ~ENABLED (handleKeyPress("Enter", FALSE) /\ ~oneSubmit(input))
    /\ (~inputDisabled /\ Rejects(input)) =>
           ~ENABLED (handleKeyPress("Enter", FALSE) /\ vars' # vars)

\* A padded, non-blank draft is in the enabled textarea after an earlier
\* exchange completed, and Enter submits it.
C14_Witness ==
    /\ ~inputDisabled
    /\ input = <<" ", "b">>
    /\ Completed # {}
    /\ Len(calls) < MaxRequests
    /\ ENABLED (handleKeyPress("Enter", FALSE) /\ oneSubmit(input))

\* A suggestion chip is on screen and can be clicked.
chipClickable == ENABLED (\E i \in 1..4 : SuggestionClick(i))

\* C15: the suggestion chips are on screen exactly when the conversation is
\* the seed greeting alone and the suggestion set is not empty; so a submit
\* made by clicking a chip is always the first submit of the session.
C15_PanelOnlyBeforeFirstSubmit ==
    /\ [](chipClickable <=> (Len(messages) = 1 /\ suggestions \notin {<<>>, NotAList}))
    /\ [](chipClickable => (messages = <<seedMessage>> /\ calls = <<>>))
    /\ [][\A t \in Texts : (SuggestionSubmits(t) /\ ~Rejects(t)) =>
              (calls = <<>> /\ messages = <<seedMessage>> /\ Len(calls') = 1)]_vars

\* Suggestions are loaded, a first submit was made, and the chips are gone.
C15_Witness ==
    /\ Len(suggestions) = 5
    /\ Len(calls) = 1
    /\ Len(messages) > 1
    /\ ~chipClickable

\* The suggestion load failed, or its body has no usable suggestions field.
loadFailed(o) == o.kind = "reject" \/ o.suggestions \in {Undefined, NotAList}

\* C16: the suggestion load completes at most once; when it fails, or the
\* suggestions field is absent or malformed, the suggestion set stays empty;
\* after completion the set never changes; and no completion touches the
\* conversation, the draft or the busy flag.
C16_SuggestionLoadIsolated ==
    [][/\ \A o \in SuggestionOutcomes : SuggestionsSettle(o) =>
              /\ sugPc = "fetching"
              /\ loadFailed(o) => suggestions' = <<>>
              /\ UNCHANGED <<messages, input, isLoading, calls>>
       /\ sugPc = "done" => (sugPc' = "done" /\ suggestions' = suggestions)
       /\ suggestions' # suggestions => \E o \in SuggestionOutcomes : SuggestionsSettle(o)]_vars

\* The bot turns of the requests, the greeting excluded, as positions.
ReplyTurns == {i \in 1..Len(messages) : messages[i].type = "bot" /\ origin[i] >= 1}

\* No request was issued while an earlier one was outstanding: the reply to
\* every earlier request stands before the user turn of every later one.
NoOverlap ==
    \A r \in Issued, q \in Issued : r < q =>
        \E i \in TurnsOf(r, "bot") : \A j \in TurnsOf(q, "user") : i < j

RepliesInRequestOrder ==
    \A i \in ReplyTurns, j \in ReplyTurns : i < j => origin[i] < origin[j]

\* C17: while the busy flag is set only a speech result can submit, the typed
\* paths being disabled; replies stand in request order in every run without
\* overlapping requests, and (witness) out of request order in some run with
\* overlapping requests.
C17_NotSerialized ==
    /\ [](NoOverlap => RepliesInRequestOrder)
    /\ [][(isLoading /\ Len(calls') > Len(calls)) => \E t \in Texts : SpeechSubmits(t)]_vars

\* The second request was accepted while the first was outstanding, and its
\* reply was appended first.
C17_Witness ==
    /\ ~NoOverlap
    /\ \E i \in ReplyTurns, j \in ReplyTurns : i < j /\ origin[i] = 2 /\ origin[j] = 1

UserTurns == {i \in 1..Len(messages) : messages[i].type = "user"}

\* C18: the number of requests issued equals the number of user turns, and
\* request r carries the text of the r-th user turn; server errors and
\* network failures add no request.
C18_OneRequestPerUserTurn ==
    /\ Len(calls) = Cardinality(UserTurns)
    /\ \A r \in Issued :
           /\ Cardinality(TurnsOf(r, "user")) = 1
           /\ \A i \in TurnsOf(r, "user") : messages[i].text = calls[r].messageText

\* Two submits were accepted, one round trip failed on the network and the
\* other got a response, and both have completed.
C18_Witness ==
    /\ Len(calls) = 2
    /\ Completed = {1, 2}
    /\ \E r \in Issued, q \in Issued : calls[r].fetch = "rejected" /\ calls[q].fetch = "fulfilled"
    /\ Cardinality(UserTurns) = 2

\* The turns of the given type among the first k, the greeting (turn 1) excluded.
TurnsUpTo(k, type) == {i \in 2..k : messages[i].type = type}

\* C19: in every prefix of the conversation the bot turns other than the
\* greeting are at most as many as the user turns, and over the whole
\* conversation the user turns are as many as the non-greeting bot turns plus
\* the outstanding requests.
C19_RepliesFollowUserTurns ==
    /\ messages[1] = seedMessage
    /\ \A k \in 1..Len(messages) :
           Cardinality(TurnsUpTo(k, "bot")) <= Cardinality(TurnsUpTo(k, "user"))
    /\ Cardinality(TurnsUpTo(Len(messages), "user")) =
           Cardinality(TurnsUpTo(Len(messages), "bot")) + Cardinality(Outstanding)

\* Two user turns stand before the first reply, one request is still
\* outstanding and the other was answered.
C19_Witness ==
    /\ Len(messages) = 4
    /\ messages[2].type = "user" /\ messages[3].type = "user" /\ messages[4].type = "bot"
    /\ Cardinality(Outstanding) = 1

\* C20: a speech result appends a user turn or issues a request only while
\* the listening flag is set; after the flag went back to idle no result of
\* that session submits.
C20_TranscriptOnlyWhileListening ==
    [][\A t \in Texts :
           (SpeechSubmits(t) /\ (messages' # messages \/ calls' # calls)) => isListening]_vars

====
